---------------------------- MODULE Spec2Model ----------------------------
(***************************************************************************)
(* Model of the IND-CPA core of kyber-ts: the field arithmetic and the     *)
(* centered-binomial sampler of lib/byte-ops.ts and the matrix generation  *)
(* and argument handling of the Indcpa class.                              *)
(*                                                                         *)
(* A JavaScript number is modelled by an integer.  Every value the code    *)
(* hands to a bitwise operator is first brought into the signed 32-bit     *)
(* range, as the language does; the helpers below compute the wrapped      *)
(* result without ever leaving that range.                                 *)
(***************************************************************************)
EXTENDS Integers, Sequences, FiniteSets, TLC

VARIABLES
    paramsK,     \* Indcpa.paramsK / the paramsK argument of generateCBDPoly
    op,          \* the operation that has been applied ("none" before)
    x,           \* field arithmetic: the signed 16-bit input
    res,         \* field arithmetic: the value returned
    buff,        \* generateCBDPoly: the input bytes
    r,           \* generateCBDPoly: the coefficients returned
    stream,      \* the SHAKE-128 output stream of the entry being sampled
    seed,        \* generateMatrix: the seed argument
    transposed,  \* generateMatrix: the transposed argument
    i,           \* generateMatrix: row index
    j,           \* generateMatrix: column index
    a,           \* generateMatrix: the matrix being filled
    ctr,         \* generateMatrix: accepted coefficients of the current entry
    output,      \* generateMatrix: the 4-block buffer squeezed for the entry
    pc,          \* generateMatrix: position in the function
    at,          \* the matrix returned by the call with transposed = true
    args,        \* indcpaEncrypt / indcpaDecrypt: lengths of the arguments
    outcome      \* indcpaEncrypt / indcpaDecrypt: how the call ended

vars == <<paramsK, op, x, res, buff, r, stream, seed, transposed, i, j, a,
          ctr, output, pc, at, args, outcome>>

fieldVars == <<x, res>>
cbdVars == <<buff, r>>
matrixVars == <<stream, seed, transposed, i, j, a, ctr, output, pc, at>>
lenVars == <<args, outcome>>

---------------------------------------------------------------------------
(* Program constants (KyberService) *)

paramsQ == 3329

paramsQinv == 62209

\* 256 in the program; scaled so that the sampling loops can be explored.
paramsN == 4

paramsSymBytes == 32

paramsPolyBytes == 384

paramsETAK512 == 3

paramsETAK768K1024 == 2

KValues == {2, 3, 4}

---------------------------------------------------------------------------
(* JavaScript integer semantics *)

Min(m, n) == IF m < n THEN m ELSE n

Max(m, n) == IF m > n THEN m ELSE n

MaxInt32 == 2147483647

MinInt32 == -MaxInt32 - 1

\* ToInt32(m + n) for m, n in the signed 32-bit range.
AddInt32(m, n) ==
    IF n > 0 /\ m > MaxInt32 - n
    THEN (m - MaxInt32 - 1) + (n - MaxInt32 - 1)
    ELSE IF n < 0 /\ m < MinInt32 - n
         THEN (m + MaxInt32 + 1) + (n + MaxInt32 + 1)
         ELSE m + n

\* m & n on two's-complement integers.
RECURSIVE BitAnd(_, _)
BitAnd(m, n) ==
    IF m = 0 \/ n = 0 THEN 0
    ELSE IF m = -1 THEN n
    ELSE IF n = -1 THEN m
    ELSE 2 * BitAnd(m \div 2, n \div 2) + (m % 2) * (n % 2)

\* m | n on two's-complement integers.
RECURSIVE BitOr(_, _)
BitOr(m, n) ==
    IF m = 0 THEN n
    ELSE IF n = 0 THEN m
    ELSE IF m = -1 \/ n = -1 THEN -1
    ELSE 2 * BitOr(m \div 2, n \div 2) + Max(m % 2, n % 2)

\* m >> s: the sign-propagating shift.
Shr(m, s) == m \div (2 ^ s)

\* m << s for 1 <= s <= 31: the low 32 - s bits of m moved up, read as signed.
Shl(m, s) ==
    LET span == 2 ^ (32 - s)
        low == m % span
    IN (IF low >= span \div 2 THEN low - span ELSE low) * (2 ^ s)

\* Utilities.int16: the value wrapped to signed 16 bits.
int16(n) == ((n + 32768) % 65536) - 32768

\* Utilities.uint16: the value wrapped to unsigned 16 bits.
uint16(n) == n % 65536

\* Utilities.int32: the value wrapped to signed 32 bits (the high half wrapped
\* to signed 16 bits, the low half kept).
int32(n) == int16(n \div 65536) * 65536 + (n % 65536)

\* int16(m * n) for 0 <= m < 2^16 and 0 <= n < 2^16, by halves of m so that
\* no intermediate product leaves the 32-bit range.
int16Mul(m, n) ==
    LET lo == (m % 256) * n
        hi == ((m \div 256) * n) % 256
    IN int16((hi * 256 + lo) % 65536)

---------------------------------------------------------------------------
(* byte-ops.ts: Barrett and Montgomery reduction *)

Int16Values == -32768 .. 32767

\* const shift = Utilities.int32(1 << 26)
barrettShift == int32(Shl(1, 26))

\* +Utilities.int16((shift + q / 2) / q).toFixed(0): the quotient rounded to
\* the nearest integer.
barrettV == int16((2 * barrettShift + paramsQ + paramsQ) \div (2 * paramsQ))

barrettReduceRounded(n) ==
    LET t == int16(int16(Shr(AddInt32(barrettV * n, 2 ^ 25), 26)) * paramsQ)
    IN n - t

barrettReduce(n) ==
    LET t == int16(int16(Shr(barrettV * n, 26)) * paramsQ)
    IN n - t

montgomeryReduceShift15(n) ==
    LET u == int16Mul(uint16(n), paramsQinv)
        t == Shr(AddInt32(n, -(u * paramsQ)), 15)
    IN int16(t)

montgomeryReduce(n) ==
    LET u == int16Mul(uint16(n), paramsQinv)
        t == Shr(AddInt32(n, -(u * paramsQ)), 16)
    IN int16(t)

\* The state of the other operations while one group of them is explored.
FieldIdle == x = 0 /\ res = 0

CBDIdle == buff = <<>> /\ r = <<>>

MatrixIdle ==
    /\ stream = <<>> /\ seed = <<>> /\ transposed = FALSE
    /\ i = 0 /\ j = 0 /\ a = <<>> /\ ctr = 0 /\ output = <<>>
    /\ pc = "idle" /\ at = <<>>

LenIdle == args = <<>> /\ outcome = "none"

InitField ==
    /\ x \in Int16Values
    /\ res = 0
    /\ op = "none"
    /\ paramsK = 2
    /\ CBDIdle /\ MatrixIdle /\ LenIdle

\* barrettReduce applied to the 16-bit input.
BarrettReduce ==
    /\ op = "none"
    /\ res' = barrettReduce(x)
    /\ op' = "barrettReduce"
    /\ UNCHANGED <<paramsK, x, cbdVars, matrixVars, lenVars>>

\* montgomeryReduce applied to x * R, R = 2^16.
MontgomeryReduce ==
    /\ op = "none"
    /\ res' = montgomeryReduce(x * 65536)
    /\ op' = "montgomeryReduce"
    /\ UNCHANGED <<paramsK, x, cbdVars, matrixVars, lenVars>>

NextField == BarrettReduce \/ MontgomeryReduce

SpecField == InitField /\ [][NextField]_vars

\* C2: for every signed 16-bit x, y = barrettReduce(x) is congruent to x
\* modulo q and |y| <= q.
C2_BarrettCongruentBounded ==
    op = "barrettReduce" =>
        /\ (res - x) % paramsQ = 0
        /\ -paramsQ <= res /\ res <= paramsQ

\* C3: for every signed 16-bit x, montgomeryReduce(x * 2^16) mod q equals
\* x mod q.
C3_MontgomeryOfXTimesR ==
    op = "montgomeryReduce" => res % paramsQ = x % paramsQ

\* C3 witness: the reduction has been applied to the most negative input,
\* whose product with R is the most negative 32-bit value.
C3_Witness ==
    op = "montgomeryReduce" /\ x = -32768 /\ res % paramsQ = x % paramsQ

---------------------------------------------------------------------------
(* byte-ops.ts: centered-binomial sampling *)

\* The byte values the input buffers are drawn from.
ByteVals == {0, 2, 56, 112, 255}

\* buf.slice(from, to) with zero-based bounds, the end clamped to the length.
Slice(buf, from, to) == SubSeq(buf, from + 1, Min(to, Len(buf)))

convertByteTo24BitUnsignedInt(xs) ==
    BitOr(BitOr(int32(BitAnd(xs[1], 255)),
                Shl(int32(BitAnd(xs[2], 255)), 8)),
          Shl(int32(BitAnd(xs[3], 255)), 16))

convertByteTo32BitUnsignedInt(xs) ==
    BitOr(BitOr(BitOr(int32(BitAnd(xs[1], 255)),
                      Shl(int32(BitAnd(xs[2], 255)), 8)),
                Shl(int32(BitAnd(xs[3], 255)), 16)),
          int32(Shl(int32(BitAnd(xs[4], 255)), 24)))

\* Iterations of `for (let i = 0; i < paramsN / 4; i++)`.
cbdWords3 == (paramsN + 3) \div 4

\* Iterations of `for (let i = 0; i < paramsN / 8; i++)`.
cbdWords2 == (paramsN + 7) \div 8

\* const d = t & 0x00249249 + ((t >> 1) & 0x00249249) + ((t >> 2) & 0x00249249)
\* where + binds tighter than &: t is masked by the sum of the three terms.
cbdEta3D(t) ==
    BitAnd(t, 2396745 + BitAnd(Shr(t, 1), 2396745) + BitAnd(Shr(t, 2), 2396745))

cbdEta3Coeff(d, lane) ==
    LET ca == int16(BitAnd(Shr(d, 6 * lane), 7))
        cb == int16(BitAnd(Shr(d, 6 * lane + paramsETAK512), 7))
    IN ca - cb

\* const d = (t & 0x55555555) + ((t >> 1) & 0x55555555); d is only ever read
\* through >>, which takes it to the signed 32-bit range.
cbdEta2D(t) ==
    AddInt32(BitAnd(t, 1431655765), BitAnd(Shr(t, 1), 1431655765))

cbdEta2CoeffMask7(d, lane) ==
    LET ca == int16(BitAnd(Shr(d, 4 * lane), 7))
        cb == int16(BitAnd(Shr(d, 4 * lane + paramsETAK768K1024), 7))
    IN ca - cb

cbdEta2Coeff(d, lane) ==
    LET ca == int16(BitAnd(Shr(d, 4 * lane), 3))
        cb == int16(BitAnd(Shr(d, 4 * lane + paramsETAK768K1024), 3))
    IN ca - cb

\* The 24-bit word of iteration w (from 0) of the eta = 3 branch.
cbdWord3(buf, w) == convertByteTo24BitUnsignedInt(Slice(buf, 3 * w, Len(buf)))

\* The 32-bit word of iteration w (from 0) of the eta = 2 branch.
cbdWord2(buf, w) == convertByteTo32BitUnsignedInt(Slice(buf, 4 * w, Len(buf)))

generateCBDPoly(buf, k) ==
    IF k = 2
    THEN [n \in 1 .. 4 * cbdWords3 |->
              cbdEta3Coeff(cbdEta3D(cbdWord3(buf, (n - 1) \div 4)), (n - 1) % 4)]
    ELSE [n \in 1 .. 8 * cbdWords2 |->
              cbdEta2Coeff(cbdEta2D(cbdWord2(buf, (n - 1) \div 8)), (n - 1) % 8)]

\* Bytes the sampler reads for parameter set k.
cbdBytes(k) == IF k = 2 THEN 3 * cbdWords3 ELSE 4 * cbdWords2

InitCBD ==
    /\ paramsK \in KValues
    /\ buff \in [1 .. cbdBytes(paramsK) -> ByteVals]
    /\ r = <<>>
    /\ op = "none"
    /\ FieldIdle /\ MatrixIdle /\ LenIdle

\* generateCBDPoly applied to the buffer.
GenerateCBDPoly ==
    /\ op = "none"
    /\ r' = generateCBDPoly(buff, paramsK)
    /\ op' = "generateCBDPoly"
    /\ UNCHANGED <<paramsK, buff, fieldVars, matrixVars, lenVars>>

NextCBD == GenerateCBDPoly

SpecCBD == InitCBD /\ [][NextCBD]_vars

\* Bit n of t.
BitOf(t, n) == Shr(t, n) % 2

\* C6: every coefficient generateCBDPoly produces lies in -3 .. 3 in the
\* eta = 3 branch (paramsK = 2) and in -2 .. 2 in the eta = 2 branch.
C6_CBDRange ==
    op = "generateCBDPoly" =>
        /\ Len(r) >= paramsN
        /\ \A n \in 1 .. Len(r) :
              IF paramsK = 2 THEN -3 <= r[n] /\ r[n] <= 3
                             ELSE -2 <= r[n] /\ r[n] <= 2

\* C6 witness: the eta = 3 branch has produced both extremes, 3 and -3.
C6_Witness ==
    /\ op = "generateCBDPoly" /\ paramsK = 2
    /\ \E n \in 1 .. Len(r) : r[n] = 3
    /\ \E n \in 1 .. Len(r) : r[n] = -3

\* C8: in the eta = 3 branch d is the sum of the three masked shifts of t, so
\* that coefficient 4i+j is the number of set bits among bits 6j .. 6j+2 of t
\* minus the number of set bits among bits 6j+3 .. 6j+5.
C8_CBDEta3BitCounts ==
    (op = "generateCBDPoly" /\ paramsK = 2) =>
        \A w \in 0 .. cbdWords3 - 1 :
            LET t == cbdWord3(buff, w)
            IN /\ cbdEta3D(t) = BitAnd(t, 2396745) + BitAnd(Shr(t, 1), 2396745)
                                   + BitAnd(Shr(t, 2), 2396745)
               /\ \A lane \in 0 .. 3 :
                     r[4 * w + lane + 1] =
                         (BitOf(t, 6 * lane) + BitOf(t, 6 * lane + 1) + BitOf(t, 6 * lane + 2))
                         - (BitOf(t, 6 * lane + 3) + BitOf(t, 6 * lane + 4) + BitOf(t, 6 * lane + 5))

---------------------------------------------------------------------------
(* Indcpa: rejection sampling and matrix generation *)

\* An array slot that was never assigned (JavaScript's undefined).
Undefined == -1

\* 3-byte groups per SHAKE-128 block: 56 in the program (168 bytes), scaled.
BlockTriples == 1

\* Bytes of one SHAKE-128 block (168 in the program).
blockBytes == 3 * BlockTriples

\* `let outputlen = 3 * 168`: blocks consumed by the first sampling round.
firstBlocks == 3

\* `Buffer.alloc(672)`: blocks squeezed for one entry.
xofBlocks == 4

\* Run of the loop of generateUniform from byte offset off with the accepted
\* coefficients acc (uniformR[0 .. uniformI-1]).
RECURSIVE uniformLoop(_, _, _, _, _)
uniformLoop(buf, bufl, len, off, acc) ==
    IF Len(acc) < len /\ off + 3 <= bufl
    THEN LET d1 == BitAnd(BitOr(Shr(uint16(buf[off + 1]), 0),
                                Shl(uint16(buf[off + 2]), 8)), 4095)
             d2 == BitAnd(BitOr(uint16(Shr(buf[off + 2], 4)),
                                Shl(uint16(buf[off + 3]), 4)), 4095)
             acc1 == IF d1 < paramsQ THEN Append(acc, d1) ELSE acc
             acc2 == IF Len(acc1) < len /\ d2 < paramsQ
                     THEN Append(acc1, d2) ELSE acc1
         IN uniformLoop(buf, bufl, len, off + 3, acc2)
    ELSE acc

\* generateUniform: the accepted coefficients, in order, and their number.
generateUniform(buf, bufl, len) ==
    LET acc == uniformLoop(buf, bufl, len, 0, <<>>)
    IN [uniformR |-> acc, uniformI |-> Len(acc)]

\* Element idx (from 0) of an array whose slots from Len(arr) on are unset.
ElementAt(arr, idx) == IF idx < Len(arr) THEN arr[idx + 1] ELSE Undefined

\* [a[i][j], ctr] = this.generateUniform(output.slice(0, 504), outputlen, paramsN)
firstRound(out) ==
    LET u == generateUniform(Slice(out, 0, firstBlocks * blockBytes),
                             firstBlocks * blockBytes, paramsN)
    IN [poly |-> [k \in 1 .. paramsN |-> ElementAt(u.uniformR, k - 1)],
        ctr |-> u.uniformI]

\* One iteration of `while (ctr < paramsN)`: the block at bytes 504 .. 671 of
\* output is sampled and copied to positions ctr .. paramsN-1.
refillRound(poly, count, out) ==
    LET u == generateUniform(Slice(out, firstBlocks * blockBytes, xofBlocks * blockBytes),
                             blockBytes, paramsN - count)
    IN [poly |-> [k \in 1 .. paramsN |->
                      IF k - 1 >= count THEN ElementAt(u.uniformR, k - 1 - count)
                                        ELSE poly[k]],
        ctr |-> count + u.uniformI]

\* const transpose = transposed ? [i, j] : [j, i]
transposeRowFirst(tr, row, col) == <<row, col>>

transpose(tr, row, col) == IF tr THEN <<row, col>> ELSE <<col, row>>

\* Stand-in for the sponge of the sha3 package: the input bytes are absorbed
\* into a 16-bit state, and each output byte is read off one step of a
\* linear congruential walk of that state.
RECURSIVE shakeAbsorb(_, _)
shakeAbsorb(st, input) ==
    IF input = <<>> THEN st
    ELSE shakeAbsorb((st * 31 + Head(input) + 1) % 65521, Tail(input))

RECURSIVE shakeSqueeze(_, _)
shakeSqueeze(st, n) ==
    IF n = 0 THEN <<>>
    ELSE <<(st \div 7) % 256>> \o shakeSqueeze((st * 75 + 74) % 65537, n - 1)

\* xof.reset().update(seed).update(transpose).digest(...) squeezed to n bytes.
shake128(input, n) == shakeSqueeze(shakeAbsorb(0, input), n)

\* `new Array(paramsK)` rows of `new Array(paramsK)` entries, none assigned.
emptyMatrix(k) == [row \in 0 .. k - 1 |-> [col \in 0 .. k - 1 |-> <<>>]]

\* The seeds explored: 32 equal bytes, of value 0 .. MaxSeedByte.
MaxSeedByte == 7

Seeds == {[n \in 1 .. paramsSymBytes |-> c] : c \in 0 .. MaxSeedByte}

\* The 3-byte groups the streams of single entries are built from:
\*   <<1, 0, 0>>       candidates 1 and 0, both accepted
\*   <<255, 255, 255>> candidates 4095 and 4095, both rejected
\*   <<0, 29, 208>>    candidates 3328 (accepted) and 3329 (rejected)
\*   <<1, 253, 2>>     candidates 3329 (rejected) and 47 (accepted)
TripleVals == {<<1, 0, 0>>, <<255, 255, 255>>, <<0, 29, 208>>, <<1, 253, 2>>}

\* Blocks of SHAKE-128 output that follow the ones generateMatrix squeezes.
MoreBlocks == 1

streamTriples == (xofBlocks + MoreBlocks) * BlockTriples

\* The bytes of a sequence of 3-byte groups.
Flatten(ts) == [n \in 1 .. 3 * Len(ts) |-> ts[((n - 1) \div 3) + 1][((n - 1) % 3) + 1]]

\* The streams of n 3-byte groups.
Streams(n) == {Flatten(ts) : ts \in [1 .. n -> TripleVals]}

\* generateMatrix on its first entry; the SHAKE-128 stream is chosen by the
\* digest step.
InitEntry ==
    /\ paramsK \in KValues
    /\ op = "generateMatrix"
    /\ stream = <<>>
    /\ seed = <<>>
    /\ transposed = FALSE
    /\ i = 0 /\ j = 0
    /\ a = emptyMatrix(paramsK)
    /\ ctr = 0
    /\ output = <<>>
    /\ pc = "xof"
    /\ at = <<>>
    /\ FieldIdle /\ CBDIdle /\ LenIdle

\* generateMatrix(seed, true), to be followed by generateMatrix(seed, false).
InitMatrix ==
    /\ paramsK \in KValues
    /\ op = "generateMatrix"
    /\ stream = <<>>
    /\ seed \in Seeds
    /\ transposed = TRUE
    /\ i = 0 /\ j = 0
    /\ a = emptyMatrix(paramsK)
    /\ ctr = 0
    /\ output = <<>>
    /\ pc = "xof"
    /\ at = <<>>
    /\ FieldIdle /\ CBDIdle /\ LenIdle

\* Lines 175-178, the XOF returning any stream.
XofAnyStream ==
    /\ pc = "xof"
    /\ seed = <<>>
    /\ stream' \in Streams(streamTriples)
    /\ pc' = "sample"
    /\ UNCHANGED <<paramsK, op, seed, transposed, i, j, a, ctr, output, at,
                   fieldVars, cbdVars, lenVars>>

\* Lines 175-178, the stream computed from seed and transpose.
XofDigest ==
    /\ pc = "xof"
    /\ seed # <<>>
    /\ stream' = shake128(seed \o transpose(transposed, i, j),
                          (xofBlocks + MoreBlocks) * blockBytes)
    /\ pc' = "sample"
    /\ UNCHANGED <<paramsK, op, seed, transposed, i, j, a, ctr, output, at,
                   fieldVars, cbdVars, lenVars>>

\* Lines 179-185: the 4-block buffer and the first sampling round.
FirstRound ==
    /\ pc = "sample"
    /\ output' = Slice(stream, 0, xofBlocks * blockBytes)
    /\ a' = [a EXCEPT ![i][j] = firstRound(Slice(stream, 0, xofBlocks * blockBytes)).poly]
    /\ ctr' = firstRound(Slice(stream, 0, xofBlocks * blockBytes)).ctr
    /\ pc' = "while"
    /\ UNCHANGED <<paramsK, op, stream, seed, transposed, i, j, at,
                   fieldVars, cbdVars, lenVars>>

\* while (ctr < paramsN): the test succeeds.
WhileContinue ==
    /\ pc = "while"
    /\ ctr < paramsN
    /\ pc' = "refill"
    /\ UNCHANGED <<paramsK, op, stream, seed, transposed, i, j, a, ctr, output, at,
                   fieldVars, cbdVars, lenVars>>

\* while (ctr < paramsN): the test fails, the entry is complete.
WhileExit ==
    /\ pc = "while"
    /\ ctr >= paramsN
    /\ pc' = "filled"
    /\ UNCHANGED <<paramsK, op, stream, seed, transposed, i, j, a, ctr, output, at,
                   fieldVars, cbdVars, lenVars>>

\* The body of the while loop.
Refill ==
    /\ pc = "refill"
    /\ a' = [a EXCEPT ![i][j] = refillRound(a[i][j], ctr, output).poly]
    /\ ctr' = refillRound(a[i][j], ctr, output).ctr
    /\ pc' = "while"
    /\ UNCHANGED <<paramsK, op, stream, seed, transposed, i, j, output, at,
                   fieldVars, cbdVars, lenVars>>

\* The for loops advance to the next entry.
NextEntry ==
    /\ pc = "filled"
    /\ seed # <<>>
    /\ ~(i = paramsK - 1 /\ j = paramsK - 1)
    /\ IF j + 1 < paramsK THEN j' = j + 1 /\ i' = i
                          ELSE j' = 0 /\ i' = i + 1
    /\ pc' = "xof"
    /\ UNCHANGED <<paramsK, op, stream, seed, transposed, a, ctr, output, at,
                   fieldVars, cbdVars, lenVars>>

\* return a
Return ==
    /\ pc = "filled"
    /\ seed # <<>>
    /\ i = paramsK - 1 /\ j = paramsK - 1
    /\ pc' = "return"
    /\ UNCHANGED <<paramsK, op, stream, seed, transposed, i, j, a, ctr, output, at,
                   fieldVars, cbdVars, lenVars>>

\* The matrix of the transposed call is kept and generateMatrix(seed, false)
\* is called.
CallNotTransposed ==
    /\ pc = "return"
    /\ transposed
    /\ at' = a
    /\ transposed' = FALSE
    /\ a' = emptyMatrix(paramsK)
    /\ i' = 0 /\ j' = 0 /\ ctr' = 0
    /\ pc' = "xof"
    /\ UNCHANGED <<paramsK, op, stream, seed, output, fieldVars, cbdVars, lenVars>>

NextEntrySampling ==
    \/ XofAnyStream
    \/ FirstRound
    \/ WhileContinue
    \/ Refill
    \/ WhileExit

SpecEntry == InitEntry /\ [][NextEntrySampling]_vars

NextMatrix ==
    \/ XofDigest
    \/ FirstRound
    \/ WhileContinue
    \/ Refill
    \/ WhileExit
    \/ NextEntry
    \/ Return
    \/ CallNotTransposed

SpecMatrix == InitMatrix /\ [][NextMatrix]_vars

\* C4: for all i, j the entry [i][j] of generateMatrix(seed, true) equals,
\* coefficient for coefficient, the entry [j][i] of generateMatrix(seed, false).
C4_TransposedIsTranspose ==
    (seed # <<>> /\ pc = "return" /\ ~transposed) =>
        \A row \in 0 .. paramsK - 1 : \A col \in 0 .. paramsK - 1 :
            \A k \in 1 .. paramsN : at[row][col][k] = a[col][row][k]

\* C4 witness: both calls have returned, at least one entry needed the refill
\* loop, and the matrix differs from its transpose.
C4_Witness ==
    /\ seed # <<>> /\ pc = "return" /\ ~transposed
    /\ at[0][1] # at[1][0]
    /\ at[1][0] = a[0][1]
    /\ \E row \in 0 .. paramsK - 1 : \E col \in 0 .. paramsK - 1 :
           firstRound(shake128(seed \o <<row, col>>, xofBlocks * blockBytes)).ctr < paramsN

\* The two 12-bit candidates of each 3-byte group of a stream, in stream order.
candidatesOf(bytes) ==
    [n \in 1 .. 2 * (Len(bytes) \div 3) |->
        LET g == 3 * ((n - 1) \div 2)
        IN IF n % 2 = 1 THEN bytes[g + 1] + 256 * (bytes[g + 2] % 16)
                        ELSE (bytes[g + 2] \div 16) + 16 * bytes[g + 3]]

\* The candidates below q of a stream, in stream order.
acceptedOf(bytes) == SelectSeq(candidatesOf(bytes), LAMBDA d : d < paramsQ)

\* C9: the entry returned consists of exactly the first paramsN accepted
\* candidates of its SHAKE-128 stream, in stream order.
C9_FirstAcceptedOfStream ==
    (seed = <<>> /\ pc = "filled" /\ Len(acceptedOf(stream)) >= paramsN) =>
        \A k \in 1 .. paramsN : a[0][0][k] = acceptedOf(stream)[k]

\* C10: the refill loop of an entry ends, whatever the XOF output.  The loop
\* is deterministic and reads only a[i][j], ctr and output, none of which
\* another step changes: it ends exactly when no round of it leaves the entry
\* and the counter as it found them.
C10_RefillRoundAdvances ==
    [][pc = "refill" => <<a, ctr>>' # <<a, ctr>>]_vars

---------------------------------------------------------------------------
(* Indcpa: lengths of the arguments of indcpaEncrypt and indcpaDecrypt *)

\* How far from the expected length the argument lengths are drawn.
LenSlack == 1

paramsPolyvecBytes(k) == k * paramsPolyBytes

paramsIndcpaPublicKeyBytes(k) == paramsPolyvecBytes(k) + paramsSymBytes

paramsPolyvecCompressedBytes(k) == IF k = 4 THEN 1408 ELSE k * 320

paramsPolyCompressedBytes(k) == IF k = 4 THEN 160 ELSE 128

\* Length of arr.slice(from, to) for an array of length len.
sliceLen(len, from, to) == Max(0, Min(to, len) - Min(from, len))

\* The Poly operations take arrays of one exact length and fail fast on any
\* other.
polyFromDataTakes(len) == len = paramsSymBytes

polyFromBytesTakes(len) == len = paramsPolyBytes

getNoisePolyTakes(len) == len = paramsSymBytes

decompressPolyVectorTakes(len, k) == len = paramsPolyvecCompressedBytes(k)

decompressPolyTakes(len, k) == len = paramsPolyCompressedBytes(k)

polyVectorFromBytesTakes(len, k) == len = paramsPolyvecBytes(k)

\* indcpaEncrypt on arguments of the given lengths: "ciphertext" when it
\* returns one, "error" when an operation it calls fails.  The seed slice goes
\* to generateMatrix, which takes a seed of any length.
indcpaEncrypt(k, publicKeyLen, messageLen, coinsLen) ==
    IF /\ polyFromDataTakes(messageLen)
       /\ \A n \in 0 .. k - 1 :
              polyFromBytesTakes(sliceLen(publicKeyLen, n * paramsPolyBytes,
                                          (n + 1) * paramsPolyBytes))
       /\ getNoisePolyTakes(coinsLen)
    THEN "ciphertext"
    ELSE "error"

\* indcpaDecrypt on arguments of the given lengths: "message" or "error".
indcpaDecrypt(k, cipherTextLen, privateKeyLen) ==
    LET bpEndIndex == paramsPolyvecCompressedBytes(k)
        vEndIndex == bpEndIndex + paramsPolyCompressedBytes(k)
    IN IF /\ decompressPolyVectorTakes(sliceLen(cipherTextLen, 0, bpEndIndex), k)
          /\ decompressPolyTakes(sliceLen(cipherTextLen, bpEndIndex, vEndIndex), k)
          /\ polyVectorFromBytesTakes(privateKeyLen, k)
       THEN "message"
       ELSE "error"

\* The lengths within LenSlack of n.
Around(n) == (n - LenSlack) .. (n + LenSlack)

InitLen ==
    /\ paramsK \in KValues
    /\ op = "none"
    /\ args = <<>>
    /\ outcome = "none"
    /\ FieldIdle /\ CBDIdle /\ MatrixIdle

IndcpaEncrypt ==
    /\ op = "none"
    /\ \E pkLen \in Around(paramsIndcpaPublicKeyBytes(paramsK)),
          msgLen \in Around(paramsSymBytes), coinsLen \in Around(paramsSymBytes) :
          /\ args' = [publicKey |-> pkLen, message |-> msgLen, coins |-> coinsLen]
          /\ outcome' = indcpaEncrypt(paramsK, pkLen, msgLen, coinsLen)
    /\ op' = "indcpaEncrypt"
    /\ UNCHANGED <<paramsK, fieldVars, cbdVars, matrixVars>>

IndcpaDecrypt ==
    /\ op = "none"
    /\ \E ctLen \in Around(paramsPolyvecCompressedBytes(paramsK)
                            + paramsPolyCompressedBytes(paramsK)),
          skLen \in Around(paramsPolyvecBytes(paramsK)) :
          /\ args' = [packedCipherText |-> ctLen, privateKey |-> skLen]
          /\ outcome' = indcpaDecrypt(paramsK, ctLen, skLen)
    /\ op' = "indcpaDecrypt"
    /\ UNCHANGED <<paramsK, fieldVars, cbdVars, matrixVars>>

NextLen == IndcpaEncrypt \/ IndcpaDecrypt

SpecLen == InitLen /\ [][NextLen]_vars

\* C5: a call of indcpaEncrypt or indcpaDecrypt with a public key, secret
\* key, ciphertext, message or coins of the wrong length fails, and produces
\* no ciphertext or message.
C5_WrongLengthFails ==
    /\ (/\ op = "indcpaEncrypt"
        /\ \/ args.publicKey # paramsIndcpaPublicKeyBytes(paramsK)
           \/ args.message # paramsSymBytes
           \/ args.coins # paramsSymBytes)
          => outcome = "error"
    /\ (/\ op = "indcpaDecrypt"
        /\ \/ args.packedCipherText # paramsPolyvecCompressedBytes(paramsK)
                                        + paramsPolyCompressedBytes(paramsK)
           \/ args.privateKey # paramsPolyvecBytes(paramsK))
          => outcome = "error"

===========================================================================
